---- MODULE Spec2Model ----
(***************************************************************************)
(* Recommendation lifecycle of insider-signal-trader.                      *)
(*                                                                         *)
(* The model covers the `recommendations` table of the D1 store            *)
(* (src/tools/db.ts), the approve / reject HTTP handlers                   *)
(* (src/routes/approval.ts) and the DecisionAgent's creation loop and      *)
(* expiry callback (src/agents/formScanner.ts).  Every `await` that reads  *)
(* or writes shared state is one step, so concurrent requests and the      *)
(* timer callback interleave exactly where the code yields.                *)
(***************************************************************************)
EXTENDS Integers, FiniteSets, Sequences, TLC

\* ---------------------------------------------------------------- bounds
MaxRecs == 2        \* recommendations that can be created
MaxReqs == 2        \* approve / reject requests received
ExpiryTicks == 2    \* APPROVAL_EXPIRY_HOURS, in clock ticks
MaxDecisions == 2   \* decisions in one LLM response
MaxNotional == 2    \* largest notional a decision names
MaxBuyingPower == 3 \* largest buying power the broker reports
PositionSizeUsd == 2  \* POSITION_SIZE_USD, the notional of a BUY that names none
PositionValue == 1  \* market_value of a held position
MaxFilings == 3     \* filings in one batch handed to scoreSignals
SmallLimit == 2     \* a limit argument below the batch size
MaxReferenceFilings == 4  \* filings in a batch drawn from the scoring test's cases
MaxHits == 8        \* hits one EDGAR search returns
MaxScanFilings == 2 \* filings one lookback query of a scan returns
MaxScheduleCalls == 4 \* pipeline-schedule requests the agent receives
MaxTimers == 2      \* expiry timers registered beside the pipeline schedule

RecIds == 1..MaxRecs
Reqs == 1..MaxReqs
NoTime == 0 - 1

Resolved == {"APPROVED", "REJECTED", "EXPIRED"}
Statuses == {"NONE", "PENDING"} \cup Resolved

VARIABLES
  status,       \* recommendations.status per id ("NONE": no such row)
  action,       \* recommendations.action per id
  age,          \* Date.now() - created_at per id, in ticks, not counted beyond ExpiryTicks
  resolvedAt,   \* recommendations.resolved_at per id, in ticks since created_at (NoTime: NULL)
  timerSt,      \* expireRecommendation schedule per id: none / armed / fired
  timerLeft,    \* ticks until the schedule is due
  prompt,       \* approval card per id: none / sent / failed
  orders,       \* brokerage orders submitted per id
  tradeLogs,    \* rows of the positions table per id
  pendingIds,   \* DecisionState.pendingRecommendationIds
  dec,          \* the running decide(): pc, decisions left, current id, newPendingIds
  req,          \* the approve / reject requests
  run,          \* one run of decide() seen from its inputs: LLM output, holdings,
                \* buying power, and the loop's position, counter and effects
  scoring,      \* one call of scoreSignals(): its arguments and its result
  fetch,        \* one call of fetchForm4s(): the search hits, the per-filing tasks
                \* and the records collected
  scan,         \* one scan of the pipeline: FormScannerAgent.run(), the response
                \* of POST /scan and what runPipeline does with it
  sched         \* the DecisionAgent's schedule table and the pipeline-schedule
                \* request in progress

lifecycleVars == <<status, action, age, resolvedAt, timerSt, timerLeft, prompt,
                   orders, tradeLogs, pendingIds, dec, req>>
pipelineVars == <<run, scoring, fetch, scan, sched>>
vars == <<lifecycleVars, pipelineVars>>

dbVars == <<status, action, age, resolvedAt>>
agentVars == <<timerSt, timerLeft, prompt, pendingIds, dec>>
brokerVars == <<orders, tradeLogs>>

\* ------------------------------------------------------------ db.ts

\* getRecommendation: SELECT * FROM recommendations WHERE id = ?
getRecommendation_IgnoresStatus(st, id) ==
  IF id \notin DOMAIN st \/ st[id] = "NONE" THEN "NOTFOUND" ELSE "PENDING"
getRecommendation(st, id) ==
  IF id \notin DOMAIN st \/ st[id] = "NONE" THEN "NOTFOUND" ELSE st[id]

\* rows matched by the WHERE clause of updateRecommendationStatus
UpdateMatches(st, id) == id \in DOMAIN st /\ st[id] # "NONE"

\* result.meta.changes of the UPDATE
UpdateChanges(st, id) == IF UpdateMatches(st, id) THEN 1 ELSE 0

\* updateRecommendationStatus throws when no row changed
UpdateThrows(st, id) == UpdateChanges(st, id) = 0

\* the status column after updateRecommendationStatus(id, new, at)
UpdatedStatus(st, id, new) ==
  IF UpdateMatches(st, id) THEN [st EXCEPT ![id] = new] ELSE st

\* the resolved_at column after updateRecommendationStatus(id, new, at)
UpdatedResolvedAt_Kept(st, ra, id, at) == ra
UpdatedResolvedAt(st, ra, id, at) ==
  IF UpdateMatches(st, id) THEN [ra EXCEPT ![id] = at] ELSE ra

\* insertRecommendation: crypto.randomUUID() never collides with a stored id
NewId_Reused(st) == 1
HasFreshId(st) == \E i \in RecIds : st[i] = "NONE"
NewId(st) == CHOOSE i \in RecIds : st[i] = "NONE" /\ \A j \in RecIds : j < i => st[j] # "NONE"

\* ------------------------------------------------------------ approval.ts

\* validatePending: ageMs >= expiryHours * MS_PER_HOUR
IsStale(ageTicks) == ageTicks >= ExpiryTicks

\* handleApprove passes checkExpiry = true, handleReject false
CheckExpiry_Always(kind) == TRUE
CheckExpiry(kind) == kind = "approve"

\* where each handler continues after a successful validatePending
AfterValidate_SkipOrder(kind) == "mark"
AfterValidate(kind) == IF kind = "approve" THEN "order" ELSE "mark"

\* where handleApprove continues when the order step ends without an order
AfterOrderFailure_FallThrough == "log"
AfterOrderFailure == "done"

\* the status each handler writes at its last step
MarkStatus_AlwaysApproved(kind) == "APPROVED"
MarkStatus(kind) == IF kind = "approve" THEN "APPROVED" ELSE "REJECTED"

\* the outcomes of step 5 of handleApprove for a BUY and for a SELL
OrderOutcomes(act) ==
  IF act = "BUY"
    THEN {"ok", "price_unavailable", "too_small", "order_failed"}
    ELSE {"ok", "no_position", "order_failed"}

\* a request: its position in the handler, its route and id parameter, the
\* resolvedAt computed by validatePending, whether it has submitted an order,
\* and the response it returned
IdleReq == [pc |-> "idle", kind |-> "none", id |-> 0 - 1, t0 |-> NoTime,
            ordered |-> FALSE, resp |-> "none"]

\* ------------------------------------------------------------ formScanner.ts

\* the order of the three creation steps inside the loop of decide
AfterPersist_NoPrompt == "schedule"
AfterNotify_NoTimer == "finish"
AfterPersist == "notify"
AfterNotify == "schedule"

IdleDec == [pc |-> "idle", left |-> 0, cur |-> 0, newIds |-> {}]

\* ------------------------------------------------------------ decide: guards

\* a ticker string is a sequence of characters; the characters that matter to
\* toUpperCase and trim are a lower-case letter, upper-case letters and a blank
Chars == {"a", "A", "B", " "}
RawTickers == {<<>>} \cup {<<c>> : c \in Chars}
Symbols == {<<"A">>, <<"B">>}

\* String.prototype.toUpperCase
ToUpperCase(s) == [k \in DOMAIN s |-> IF s[k] = "a" THEN "A" ELSE s[k]]

\* String.prototype.trim
RECURSIVE Trim(_)
Trim(s) ==
  IF s = <<>> THEN s
  ELSE IF Head(s) = " " THEN Trim(Tail(s))
  ELSE IF s[Len(s)] = " " THEN Trim(SubSeq(s, 1, Len(s) - 1))
  ELSE s

\* an absent optional field
NoNotional == 0 - 1

\* the objects an LLM response can hold (reasoning, qty and the bracket
\* prices play no part in the guards and are left out)
RawActions == {"BUY", "SELL", "HOLD", "SHORT"}
RawNotionals == {NoNotional} \cup 0..MaxNotional
RawDecisions == [action : RawActions, ticker : RawTickers, notional : RawNotionals]
RawLists == UNION {[1..n -> RawDecisions] : n \in 0..MaxDecisions}

\* an LLM response: text that holds a JSON array of such objects, or text in
\* which no array is found or JSON.parse throws
NotJson == [parses |-> FALSE, items |-> <<>>]
RawOutputs == {NotJson} \cup {[parses |-> TRUE, items |-> l] : l \in RawLists}

\* LlmDecisionSchema: action enum, ticker min(1), notional positive optional
SchemaAccepts(d) ==
  /\ d.action \in {"BUY", "SELL", "HOLD"}
  /\ Len(d.ticker) >= 1
  /\ (d.notional = NoNotional \/ d.notional > 0)

\* LlmDecisionSchema: the ticker transform applied to an accepted object
SchemaOutput(d) == [d EXCEPT !.ticker = Trim(ToUpperCase(d.ticker))]

\* extractDecisions: JSON.parse, then LlmDecisionsSchema.safeParse of the
\* whole array; any failure throws
extractDecisions_DropInvalid(rawText) ==
  IF ~rawText.parses THEN [ok |-> FALSE, data |-> <<>>]
  ELSE LET kept == SelectSeq(rawText.items, SchemaAccepts)
       IN [ok |-> TRUE, data |-> [k \in DOMAIN kept |-> SchemaOutput(kept[k])]]
extractDecisions(rawText) ==
  IF ~rawText.parses THEN [ok |-> FALSE, data |-> <<>>]
  ELSE IF \A k \in DOMAIN rawText.items : SchemaAccepts(rawText.items[k])
    THEN [ok |-> TRUE, data |-> [k \in DOMAIN rawText.items |-> SchemaOutput(rawText.items[k])]]
  ELSE [ok |-> FALSE, data |-> <<>>]

\* the three guards at the top of the loop body
SkipHold_Never(d) == FALSE
SkipHold(d) == d.action = "HOLD"
SkipBuyHeld_Never(d, portfolioTickers) == FALSE
SkipBuyHeld(d, portfolioTickers) == d.action = "BUY" /\ d.ticker \in portfolioTickers
SkipSellNotHeld(d, portfolioTickers) == d.action = "SELL" /\ d.ticker \notin portfolioTickers

\* the notional of the recommendation: a BUY's own or the configured size; for
\* any other action the position's market value, or qty * price (0: no qty,
\* no price) when there is no position
Notional(d, portfolioTickers) ==
  IF d.action = "BUY"
    THEN IF d.notional # NoNotional THEN d.notional ELSE PositionSizeUsd
  ELSE IF d.ticker \in portfolioTickers THEN PositionValue ELSE 0

\* the buying-power guard of a BUY and the deduction that follows it
Insufficient(d, remainingBuyingPower, notional) ==
  d.action = "BUY" /\ remainingBuyingPower < notional
Deduct_Nothing(d, remainingBuyingPower, notional) == remainingBuyingPower
Deduct(d, remainingBuyingPower, notional) ==
  IF d.action = "BUY" THEN remainingBuyingPower - notional ELSE remainingBuyingPower

\* the index the loop goes to after a BUY it cannot fund: continue
AfterInsufficient_Break(idx, len) == len + 1
AfterInsufficient(idx, len) == idx + 1

\* the index the loop goes to after insertRecommendation throws: continue
AfterInsertFailure_Break(idx, len) == len + 1
AfterInsertFailure(idx, len) == idx + 1

\* the sum of the notionals of the BUY recommendations in a list
RECURSIVE SumBuy(_)
SumBuy(recs) ==
  IF recs = <<>> THEN 0
  ELSE (IF Head(recs).action = "BUY" THEN Head(recs).notional ELSE 0) + SumBuy(Tail(recs))

IdleRun == [pc |-> "idle", raw |-> NotJson, portfolioTickers |-> {}, buyingPower |-> 0,
            decisions |-> <<>>, idx |-> 0, remainingBuyingPower |-> 0,
            created |-> <<>>, prompts |-> 0, timers |-> 0,
            outcome |-> <<>>, prompted |-> {}, scheduled |-> {}, newPendingIds |-> {}]

\* ------------------------------------------------------------ scoring

\* calendar dates are day numbers; Today is the current UTC date
Today == 0
MsPerDay == 86400000
DateParse(d) == d * MsPerDay

\* utcDateString(offsetDays)
utcDateString(offsetDays) == Today + offsetDays

\* a role text is the sequence of its words; the i flag of the patterns is a
\* comparison of upper-cased words
Upper(w) ==
  CASE w = "Chief" -> "CHIEF"
    [] w = "Executive" -> "EXECUTIVE"
    [] w = "Officer" -> "OFFICER"
    [] w = "Director" -> "DIRECTOR"
    [] w = "Vice" -> "VICE"
    [] w = "President" -> "PRESIDENT"
    [] w = "of" -> "OF"
    [] w = "Operations" -> "OPERATIONS"
    [] w = "Owner" -> "OWNER"
    [] OTHER -> w

\* ROLE_PATTERNS: the words and the two-word phrases each pattern names
\* between its \b anchors
ExecutiveWords == {"CEO", "CFO", "PRESIDENT", "COO", "CTO", "CSO", "CRO", "CHAIRMAN"}
ExecutivePhrases == {<<"CHIEF", "EXECUTIVE">>, <<"CHIEF", "FINANCIAL">>,
                     <<"CHIEF", "OPERATING">>, <<"CHIEF", "TECHNOLOGY">>}
DirectorWords == {"DIRECTOR"}
OfficerWords == {"VP", "SVP", "EVP", "OFFICER", "TREASURER", "SECRETARY",
                 "CONTROLLER", "COMPTROLLER"}
OfficerPhrases == {<<"VICE", "PRES">>}

\* re.test(role) for a pattern given by its words and phrases
PatternTest(role, words, phrases) ==
  \/ \E k \in DOMAIN role : Upper(role[k]) \in words
  \/ \E k \in DOMAIN role :
       k + 1 \in DOMAIN role /\ <<Upper(role[k]), Upper(role[k + 1])>> \in phrases

scoreRole(role) ==
  IF PatternTest(role, ExecutiveWords, ExecutivePhrases) THEN 40
  ELSE IF PatternTest(role, DirectorWords, {}) THEN 25
  ELSE IF PatternTest(role, OfficerWords, OfficerPhrases) THEN 15
  ELSE 5

scoreValue_Top25(transactionValue) ==
  IF transactionValue > 1000000 THEN 25
  ELSE IF transactionValue > 100000 THEN 10
  ELSE IF transactionValue > 10000 THEN 5
  ELSE 0
scoreValue(transactionValue) ==
  IF transactionValue > 1000000 THEN 20
  ELSE IF transactionValue > 100000 THEN 10
  ELSE IF transactionValue > 10000 THEN 5
  ELSE 0

scoreRecency_TodayOnly(transactionDate) ==
  IF transactionDate = utcDateString(0) THEN 20 ELSE 0
scoreRecency(transactionDate) ==
  IF transactionDate = utcDateString(0) THEN 20
  ELSE IF transactionDate = utcDateString(0 - 1) THEN 10
  ELSE 0

\* Math.abs(Date.parse(a) - Date.parse(b)) / msPerDay
calendarDayDiff(a, b) ==
  LET ms == DateParse(a) - DateParse(b)
  IN (IF ms < 0 THEN 0 - ms ELSE ms) \div MsPerDay

filingKey(f) == <<f.ticker, f.insiderName, f.transactionDate>>

\* the condition under which detectClusters adds both filings of a pair
ClusterPair_Under5(a, b) ==
  /\ a.insiderName # b.insiderName
  /\ calendarDayDiff(a.transactionDate, b.transactionDate) < 5
ClusterPair(a, b) ==
  /\ a.insiderName # b.insiderName
  /\ calendarDayDiff(a.transactionDate, b.transactionDate) <= 5

\* detectClusters: group by ticker, then every pair i < j of a group
detectClusters(filings) ==
  LET tickers == {filings[k].ticker : k \in DOMAIN filings}
      Group(t) == LET InGroup(f) == f.ticker = t IN SelectSeq(filings, InGroup)
      Pairs(group) == {ij \in (DOMAIN group) \X (DOMAIN group) : ij[1] < ij[2]}
  IN UNION {
       IF Len(Group(t)) < 2 THEN {}
       ELSE UNION {
         IF ClusterPair(Group(t)[ij[1]], Group(t)[ij[2]])
           THEN {filingKey(Group(t)[ij[1]]), filingKey(Group(t)[ij[2]])}
           ELSE {}
         : ij \in Pairs(Group(t))}
       : t \in tickers}

buildSignal(filing, inCluster) ==
  LET roleFactor == scoreRole(filing.insiderRole)
      valueFactor == scoreValue(filing.transactionValue)
      clusterBonus == IF inCluster THEN 20 ELSE 0
      recencyFactor == scoreRecency(filing.transactionDate)
      raw == roleFactor + valueFactor + clusterBonus + recencyFactor
  IN [filing |-> filing,
      score |-> IF raw < 100 THEN raw ELSE 100,
      scoreBreakdown |-> [roleFactor |-> roleFactor, valueFactor |-> valueFactor,
                          clusterBonus |-> clusterBonus, recencyFactor |-> recencyFactor],
      capped |-> raw > 100]

\* the gate of scoreSignals
IsPurchase_Any(f) == TRUE
IsPurchase(f) == f.transactionType = "P"

\* Array.prototype.sort((a, b) => b.score - a.score): descending, stable
RECURSIVE InsertByScore_BeforeTies(_, _)
InsertByScore_BeforeTies(sorted, x) ==
  IF sorted = <<>> THEN <<x>>
  ELSE IF Head(sorted).score > x.score
    THEN <<Head(sorted)>> \o InsertByScore_BeforeTies(Tail(sorted), x)
  ELSE <<x>> \o sorted

RECURSIVE InsertByScore(_, _)
InsertByScore(sorted, x) ==
  IF sorted = <<>> THEN <<x>>
  ELSE IF Head(sorted).score >= x.score
    THEN <<Head(sorted)>> \o InsertByScore(Tail(sorted), x)
  ELSE <<x>> \o sorted

RECURSIVE SortByScore(_)
SortByScore_AsGiven(signals) == signals
SortByScore(signals) ==
  IF signals = <<>> THEN <<>>
  ELSE InsertByScore(SortByScore(SubSeq(signals, 1, Len(signals) - 1)),
                     signals[Len(signals)])

\* Array.prototype.slice(0, limit)
Slice_MinScore50(signals, limit) ==
  LET Kept(x) == x.score >= 50
      kept == SelectSeq(signals, Kept)
  IN SubSeq(kept, 1, IF limit < Len(kept) THEN limit ELSE Len(kept))
Slice(signals, limit) ==
  SubSeq(signals, 1, IF limit < Len(signals) THEN limit ELSE Len(signals))

DefaultLimit == 10

scoreSignals(filings, limit) ==
  LET purchases == SelectSeq(filings, IsPurchase) IN
  IF Len(purchases) = 0 THEN <<>>
  ELSE LET clustered == detectClusters(purchases)
           signals == [k \in DOMAIN purchases |->
                         buildSignal(purchases[k], filingKey(purchases[k]) \in clustered)]
       IN Slice(SortByScore(signals), limit)

\* the filings of a batch: two tickers and two insiders, dated today,
\* yesterday and six days ago, with the role texts and dollar values of the
\* scoring test and two officer / owner roles; awards carry the profile most
\* likely to score
Insiders == {[ticker |-> "CLUSTER", insiderName |-> "Alice Smith"],
             [ticker |-> "CLUSTER", insiderName |-> "Bob Jones"],
             [ticker |-> "MEGA", insiderName |-> "Alice Smith"]}
Dates == {utcDateString(0), utcDateString(0 - 1), utcDateString(0 - 6)}
Profiles ==
  {[insiderRole |-> <<"Chief", "Executive", "Officer", "CEO">>, transactionValue |-> 1500000],
   [insiderRole |-> <<"Director">>, transactionValue |-> 200000],
   [insiderRole |-> <<"Director">>, transactionValue |-> 75000],
   [insiderRole |-> <<"Vice", "President", "of", "Operations">>, transactionValue |-> 8500],
   [insiderRole |-> <<"VP">>, transactionValue |-> 75000],
   [insiderRole |-> <<"10%", "Owner">>, transactionValue |-> 8500]}
AwardProfiles ==
  {[insiderRole |-> <<"Chief", "Executive", "Officer", "CEO">>, transactionValue |-> 1500000]}

MakeFiling(who, date, type, profile) ==
  [ticker |-> who.ticker, insiderName |-> who.insiderName,
   insiderRole |-> profile.insiderRole, transactionDate |-> date,
   transactionType |-> type, transactionValue |-> profile.transactionValue]

Filings ==
  {MakeFiling(w, d, "P", p) : w \in Insiders, d \in Dates, p \in Profiles}
    \cup {MakeFiling(w, d, "A", p) : w \in Insiders, d \in Dates, p \in AwardProfiles}
Batches == UNION {[1..n -> Filings] : n \in 0..MaxFilings}
Limits == {SmallLimit, DefaultLimit}

\* Cases 1, 2, 3 and 5 of the scoring test: a CEO purchase, two directors
\* buying one ticker, and an award
ReferenceFilings ==
  {[ticker |-> "MEGA", insiderName |-> "Jane Doe",
    insiderRole |-> <<"Chief", "Executive", "Officer", "CEO">>,
    transactionDate |-> utcDateString(0), transactionType |-> "P",
    transactionValue |-> 1500000],
   [ticker |-> "CLUSTER", insiderName |-> "Alice Smith", insiderRole |-> <<"Director">>,
    transactionDate |-> utcDateString(0 - 1), transactionType |-> "P",
    transactionValue |-> 200000],
   [ticker |-> "CLUSTER", insiderName |-> "Bob Jones", insiderRole |-> <<"Director">>,
    transactionDate |-> utcDateString(0), transactionType |-> "P",
    transactionValue |-> 75000],
   [ticker |-> "OPTS", insiderName |-> "Dave Black", insiderRole |-> <<"CEO">>,
    transactionDate |-> utcDateString(0), transactionType |-> "A",
    transactionValue |-> 2000000]}
ReferenceBatches == UNION {[1..n -> ReferenceFilings] : n \in 0..MaxReferenceFilings}

IdleScoring == [pc |-> "idle", filings |-> <<>>, limit |-> DefaultLimit, out |-> <<>>]

\* ------------------------------------------------------------ fetchForm4s

\* batchedSettle(ids, 6, processFiling)
FanOut == 6

\* the hits of a search are numbered in the order the search returns them
Hits(n) == 1..n

\* the records parseTransactions finds in the filing of hit h
RecordsOf(h) == [k \in 1..(1 + (h % 2)) |-> [hit |-> h, tx |-> k]]

\* how a processFiling task can settle: fulfilled with records, fulfilled
\* with [] (unresolvable location, non-OK response, no transaction), or
\* rejected (the fetch or the body read throws)
Settlements == {"records", "empty", "rejected"}

\* items.slice(i, i + concurrency): the last index of the chunk that starts at i
ChunkEnd_All(i, concurrency, n) == n
ChunkEnd(i, concurrency, n) == IF i + concurrency - 1 < n THEN i + concurrency - 1 ELSE n

\* what awaiting the chunk's promises yields: Promise.allSettled never rejects
Awaited_All(task, chunk) ==
  IF \E h \in chunk : task[h] = "rejected" THEN "throw" ELSE "settled"
Awaited(task, chunk) == "settled"

\* results.push(...r.value) for every fulfilled r of the chunk, in order
RECURSIVE Pushed(_, _, _, _)
Pushed(results, task, from, to) ==
  IF from > to THEN results
  ELSE Pushed(IF task[from] = "records" THEN results \o RecordsOf(from) ELSE results,
              task, from + 1, to)

IdleFetch == [pc |-> "idle", n |-> 0, hung |-> {}, i |-> 0,
              task |-> [h \in Hits(MaxHits) |-> "idle"], results |-> <<>>]

\* ------------------------------------------------------------ the scan

\* the filings a lookback query can return: yesterday's purchase by a CEO,
\* yesterday's purchase by a director, and an award
ScanFilings ==
  {f \in Filings :
     /\ f.transactionDate = utcDateString(0 - 1)
     /\ f.ticker = "MEGA"
     /\ f.transactionValue \in {1500000, 200000}}
ScanBatches == UNION {[1..n -> ScanFilings] : n \in 0..MaxScanFilings}

\* what fetchForm4s(lookbackDays) does when called: it throws, or it
\* returns a batch of filings
Threw == [ok |-> FALSE, filings |-> <<>>]
QueryOutcomes == {Threw} \cup {[ok |-> TRUE, filings |-> b] : b \in ScanBatches}

\* filings.some((f) => f.transactionType === "P")
hadPurchases_NonEmpty(filings) == Len(filings) > 0
hadPurchases(filings) == \E k \in DOMAIN filings : filings[k].transactionType = "P"

IdleScan == [pc |-> "idle", day1 |-> Threw, day3 |-> Threw, filings |-> <<>>,
             queries1 |-> 0, queries3 |-> 0, threw |-> {},
             scoreCalls |-> 0, scored |-> <<>>, signals |-> <<>>,
             k |-> 0, rows |-> 0, persistedIds |-> <<>>, pendingSignalIds |-> <<>>,
             response |-> "none", signalCount |-> 0, message |-> "none"]

\* ------------------------------------------------------------ schedules

\* a row of the agent's schedule table
CronRow(id) == [id |-> id, type |-> "cron", callback |-> "runPipelineFromScheduler"]
DelayedRow(id) == [id |-> id, type |-> "delayed", callback |-> "expireRecommendation"]

\* this.getSchedules({ type: "cron" }).filter((s) => s.callback === "runPipelineFromScheduler")
PipelineSchedules(table) ==
  {s \in table : s.type = "cron" /\ s.callback = "runPipelineFromScheduler"}

\* setPipelineSchedule cancels the existing rows before it schedules
ExistingToCancel_None(table) == {}
ExistingToCancel(table) == PipelineSchedules(table)

IdleSched == [pc |-> "idle", table |-> {}, existing |-> {}, nextId |-> 1,
              calls |-> 0, last |-> "none", timers |-> {}, fired |-> {}]

\* ------------------------------------------------------------ Init

InitLifecycle ==
  /\ status = [i \in RecIds |-> "NONE"]
  /\ action = [i \in RecIds |-> "none"]
  /\ age = [i \in RecIds |-> 0]
  /\ resolvedAt = [i \in RecIds |-> NoTime]
  /\ timerSt = [i \in RecIds |-> "none"]
  /\ timerLeft = [i \in RecIds |-> 0]
  /\ prompt = [i \in RecIds |-> "none"]
  /\ orders = [i \in RecIds |-> 0]
  /\ tradeLogs = [i \in RecIds |-> 0]
  /\ pendingIds = {}
  /\ dec = IdleDec
  /\ req = [r \in Reqs |-> IdleReq]

Init ==
  /\ InitLifecycle
  /\ run = IdleRun
  /\ scoring = IdleScoring
  /\ fetch = IdleFetch
  /\ scan = IdleScan
  /\ sched = IdleSched

\* ------------------------------------------------------------ decide

\* decide() reaches its per-decision loop with n accepted BUY / SELL decisions
\* (a run with none only rewrites pendingRecommendationIds with its own value)
DecideStart ==
  /\ dec.pc = "idle"
  /\ \E n \in 1..Cardinality({i \in RecIds : status[i] = "NONE"}) :
       dec' = [pc |-> "persist", left |-> n, cur |-> 0, newIds |-> {}]
  /\ UNCHANGED <<dbVars, timerSt, timerLeft, prompt, pendingIds, brokerVars, req>>
  /\ UNCHANGED pipelineVars

DecNextPc(left) == IF left > 1 THEN "persist" ELSE "finish"

\* insertRecommendation; on failure the loop continues with the next decision
DecidePersist ==
  /\ dec.pc = "persist"
  /\ HasFreshId(status)
  /\ \E ok \in BOOLEAN, act \in {"BUY", "SELL"} :
       IF ok
         THEN LET i == NewId(status) IN
              /\ status' = [status EXCEPT ![i] = "PENDING"]
              /\ action' = [action EXCEPT ![i] = act]
              /\ dec' = [dec EXCEPT !.pc = AfterPersist, !.cur = i]
         ELSE /\ dec' = [dec EXCEPT !.pc = DecNextPc(dec.left), !.left = dec.left - 1]
              /\ UNCHANGED <<status, action>>
  /\ UNCHANGED <<age, resolvedAt, timerSt, timerLeft, prompt, pendingIds, brokerVars, req>>
  /\ UNCHANGED pipelineVars

\* sendApprovalMessage; a failure is logged and the loop goes on
DecideNotify ==
  /\ dec.pc = "notify"
  /\ \E ok \in BOOLEAN :
       prompt' = [prompt EXCEPT ![dec.cur] = IF ok THEN "sent" ELSE "failed"]
  /\ dec' = [dec EXCEPT !.pc = AfterNotify]
  /\ UNCHANGED <<dbVars, timerSt, timerLeft, pendingIds, brokerVars, req>>
  /\ UNCHANGED pipelineVars

\* this.schedule(expirySeconds, "expireRecommendation", {id}); newPendingIds.push
DecideSchedule ==
  /\ dec.pc = "schedule"
  /\ timerSt' = [timerSt EXCEPT ![dec.cur] = "armed"]
  /\ timerLeft' = [timerLeft EXCEPT ![dec.cur] = ExpiryTicks]
  /\ dec' = [dec EXCEPT !.pc = DecNextPc(dec.left), !.left = dec.left - 1,
                        !.newIds = dec.newIds \cup {dec.cur}]
  /\ UNCHANGED <<dbVars, prompt, pendingIds, brokerVars, req>>
  /\ UNCHANGED pipelineVars

\* setState({pendingRecommendationIds: [...state, ...newPendingIds]})
DecideFinish ==
  /\ dec.pc = "finish"
  /\ pendingIds' = pendingIds \cup dec.newIds
  /\ dec' = IdleDec
  /\ UNCHANGED <<dbVars, timerSt, timerLeft, prompt, brokerVars, req>>
  /\ UNCHANGED pipelineVars

\* ------------------------------------------------------------ expiry callback

\* DecisionAgent.expireRecommendation, run by the scheduler once the delay passed
ExpireFire(i) ==
  /\ timerSt[i] = "armed"
  /\ timerLeft[i] = 0
  /\ timerSt' = [timerSt EXCEPT ![i] = "fired"]
  /\ status' = UpdatedStatus(status, i, "EXPIRED")
  /\ resolvedAt' = UpdatedResolvedAt(status, resolvedAt, i, age[i])
  /\ pendingIds' = IF UpdateThrows(status, i) THEN pendingIds ELSE pendingIds \ {i}
  /\ UNCHANGED <<action, age, timerLeft, prompt, brokerVars, dec, req>>
  /\ UNCHANGED pipelineVars

\* ------------------------------------------------------------ requests

\* the ids a request can carry: the id of a delivered approval card, or
\* UnknownId, a string that is no stored id
UnknownId == 0
KnownIds == {i \in RecIds : prompt[i] = "sent"}

\* handleApproval: dispatch GET /approve?id= or GET /reject?id=
Click(r, kind, id) ==
  /\ req[r].pc = "idle"
  /\ id \in KnownIds \cup {UnknownId}
  /\ \A q \in Reqs : q < r => req[q].pc # "idle"
  /\ req' = [req EXCEPT ![r] = [IdleReq EXCEPT !.pc = "validate", !.kind = kind, !.id = id]]
  /\ UNCHANGED <<dbVars, agentVars, brokerVars>>
  /\ UNCHANGED pipelineVars

\* validatePending up to its first write
Validate(r) ==
  /\ req[r].pc = "validate"
  /\ LET id == req[r].id
         rec == getRecommendation(status, id)
     IN req' = [req EXCEPT ![r] =
          IF rec = "NOTFOUND"
            THEN [@ EXCEPT !.pc = "done", !.resp = "not_found"]
          ELSE IF rec # "PENDING"
            THEN [@ EXCEPT !.pc = "done", !.resp = "already"]
          ELSE IF CheckExpiry(req[r].kind) /\ IsStale(age[id])  \* rec.createdAt is set
            THEN [@ EXCEPT !.pc = "expire", !.t0 = age[id]]
          ELSE [@ EXCEPT !.pc = AfterValidate(req[r].kind), !.t0 = age[id]]]
  /\ UNCHANGED <<dbVars, agentVars, brokerVars>>
  /\ UNCHANGED pipelineVars

\* validatePending: updateRecommendationStatus(id, "EXPIRED", resolvedAt).catch(...)
ValidateExpire(r) ==
  /\ req[r].pc = "expire"
  /\ LET id == req[r].id IN
     /\ status' = UpdatedStatus(status, id, "EXPIRED")
     /\ resolvedAt' = UpdatedResolvedAt(status, resolvedAt, id, req[r].t0)
     /\ req' = [req EXCEPT ![r] = [@ EXCEPT !.pc = "done", !.t0 = NoTime, !.resp = "expired"]]
  /\ UNCHANGED <<action, age, agentVars, brokerVars>>
  /\ UNCHANGED pipelineVars

\* handleApprove step 5: price lookup / position lookup and order submission
\* (decide never stores a HOLD recommendation, so the HOLD refusal before
\* step 5 is not taken)
SubmitOrder(r) ==
  /\ req[r].pc = "order"
  /\ LET id == req[r].id IN
     \E out \in OrderOutcomes(action[id]) :
       IF out = "ok"
         THEN /\ orders' = [orders EXCEPT ![id] = @ + 1]
              /\ req' = [req EXCEPT ![r] = [@ EXCEPT !.pc = "log", !.ordered = TRUE]]
         ELSE /\ orders' = orders
              /\ req' = [req EXCEPT ![r] = [@ EXCEPT !.pc = AfterOrderFailure, !.resp = out,
                           !.t0 = IF AfterOrderFailure = "done" THEN NoTime ELSE @]]
  /\ UNCHANGED <<dbVars, agentVars, tradeLogs>>
  /\ UNCHANGED pipelineVars

\* handleApprove step 6: logTrade, non-fatal on failure
LogTrade(r) ==
  /\ req[r].pc = "log"
  /\ \E ok \in BOOLEAN :
       tradeLogs' = IF ok THEN [tradeLogs EXCEPT ![req[r].id] = @ + 1] ELSE tradeLogs
  /\ req' = [req EXCEPT ![r] = [@ EXCEPT !.pc = "mark"]]
  /\ UNCHANGED <<dbVars, agentVars, orders>>
  /\ UNCHANGED pipelineVars

\* handleApprove step 7 / handleReject step 4: updateRecommendationStatus
Mark(r) ==
  /\ req[r].pc = "mark"
  /\ LET id == req[r].id
         new == MarkStatus(req[r].kind)
         threw == UpdateThrows(status, id)
     IN
     /\ status' = UpdatedStatus(status, id, new)
     /\ resolvedAt' = UpdatedResolvedAt(status, resolvedAt, id, req[r].t0)
     /\ req' = [req EXCEPT ![r] = [@ EXCEPT !.pc = "done", !.t0 = NoTime,
                  !.resp = IF req[r].kind = "approve" THEN "executed"
                           ELSE IF threw THEN "reject_failed" ELSE "rejected"]]
  /\ UNCHANGED <<action, age, agentVars, brokerVars>>
  /\ UNCHANGED pipelineVars

\* ------------------------------------------------------------ clock

\* one tick passes: every stored recommendation ages and every armed schedule
\* comes one tick closer
AgedBy1(st, a) ==
  [i \in RecIds |-> IF st[i] # "NONE" /\ a[i] < ExpiryTicks THEN a[i] + 1 ELSE a[i]]

Tick ==
  /\ age' = AgedBy1(status, age)
  /\ timerLeft' = [i \in RecIds |->
       IF timerSt[i] = "armed" /\ timerLeft[i] > 0 THEN timerLeft[i] - 1 ELSE timerLeft[i]]
  /\ age' # age \/ timerLeft' # timerLeft
  /\ UNCHANGED <<status, action, resolvedAt, timerSt, prompt, pendingIds, dec, brokerVars, req>>
  /\ UNCHANGED pipelineVars

Next ==
  \/ DecideStart
  \/ DecidePersist
  \/ DecideNotify
  \/ DecideSchedule
  \/ DecideFinish
  \/ \E i \in RecIds : ExpireFire(i)
  \/ \E r \in Reqs, kind \in {"approve", "reject"}, id \in RecIds \cup {UnknownId} :
       Click(r, kind, id)
  \/ \E r \in Reqs : Validate(r)
  \/ \E r \in Reqs : ValidateExpire(r)
  \/ \E r \in Reqs : SubmitOrder(r)
  \/ \E r \in Reqs : LogTrade(r)
  \/ \E r \in Reqs : Mark(r)
  \/ Tick

Spec == Init /\ [][Next]_vars

\* the run in which no human answers: creation, time and the scheduler only
NextUnattended ==
  \/ DecideStart
  \/ DecidePersist
  \/ DecideNotify
  \/ DecideSchedule
  \/ DecideFinish
  \/ \E i \in RecIds : ExpireFire(i)
  \/ Tick

\* decide() keeps running once started, time passes, and the durable scheduler
\* runs every callback that is due
Fairness ==
  /\ WF_vars(DecidePersist)
  /\ WF_vars(DecideNotify)
  /\ WF_vars(DecideSchedule)
  /\ WF_vars(DecideFinish)
  /\ WF_vars(Tick)
  /\ \A i \in RecIds : WF_vars(ExpireFire(i))

LiveSpec == Init /\ [][NextUnattended]_vars /\ Fairness

\* ------------------------------------------------------------ decide: one run

\* a run starts with what its three fetches and the LLM returned (a failed
\* getPortfolio is the empty holdings, a failed getBuyingPower is 0)
InitDecide ==
  /\ InitLifecycle
  /\ scoring = IdleScoring
  /\ fetch = IdleFetch
  /\ scan = IdleScan
  /\ sched = IdleSched
  /\ \E raw \in RawOutputs, held \in SUBSET Symbols, bp \in 0..MaxBuyingPower :
       run = [IdleRun EXCEPT !.pc = "parse", !.raw = raw, !.portfolioTickers = held,
                             !.buyingPower = bp]

\* decisions = this.extractDecisions(rawOutput); on a throw decide rethrows
DecideParse ==
  /\ run.pc = "parse"
  /\ LET r == extractDecisions(run.raw) IN
       run' = IF r.ok
                THEN [run EXCEPT !.pc = "loop", !.decisions = r.data, !.idx = 1,
                                 !.remainingBuyingPower = run.buyingPower]
                ELSE [run EXCEPT !.pc = "failed"]
  /\ UNCHANGED <<lifecycleVars, scoring, fetch, scan, sched>>

\* one pass through the body of `for (const decision of decisions)`
DecideIteration ==
  /\ run.pc = "loop"
  /\ run.idx <= Len(run.decisions)
  /\ LET d == run.decisions[run.idx]
         held == run.portfolioTickers
         notional == Notional(d, held)
         rec == [action |-> d.action, ticker |-> d.ticker, notional |-> notional]
     IN
     IF SkipHold(d) \/ SkipBuyHeld(d, held) \/ SkipSellNotHeld(d, held)
       THEN run' = [run EXCEPT !.idx = run.idx + 1, !.outcome = Append(@, "skipped")]
     ELSE IF Insufficient(d, run.remainingBuyingPower, notional)
       THEN run' = [run EXCEPT !.idx = AfterInsufficient(run.idx, Len(run.decisions)),
                               !.outcome = Append(@, "unfunded")]
     ELSE \E inserted \in BOOLEAN :
       run' = IF inserted
                THEN [run EXCEPT
                        !.idx = run.idx + 1,
                        !.remainingBuyingPower = Deduct(d, run.remainingBuyingPower, notional),
                        !.created = Append(@, rec),
                        !.prompts = @ + 1,
                        !.timers = @ + 1,
                        !.outcome = Append(@, "created"),
                        !.prompted = @ \cup {run.idx},
                        !.scheduled = @ \cup {run.idx},
                        !.newPendingIds = @ \cup {run.idx}]
                ELSE [run EXCEPT
                        !.idx = AfterInsertFailure(run.idx, Len(run.decisions)),
                        !.remainingBuyingPower = Deduct(d, run.remainingBuyingPower, notional),
                        !.outcome = Append(@, "insertFailed")]
  /\ UNCHANGED <<lifecycleVars, scoring, fetch, scan, sched>>

\* the loop is over: setState and return
DecideReturn ==
  /\ run.pc = "loop"
  /\ run.idx > Len(run.decisions)
  /\ run' = [run EXCEPT !.pc = "done"]
  /\ UNCHANGED <<lifecycleVars, scoring, fetch, scan, sched>>

NextDecide == DecideParse \/ DecideIteration \/ DecideReturn

DecideSpec == InitDecide /\ [][NextDecide]_vars

\* ------------------------------------------------------------ scoring: one call

InitScoring ==
  /\ InitLifecycle
  /\ run = IdleRun
  /\ fetch = IdleFetch
  /\ scan = IdleScan
  /\ sched = IdleSched
  /\ \E filings \in Batches, limit \in Limits :
       scoring = [IdleScoring EXCEPT !.pc = "call", !.filings = filings, !.limit = limit]

\* const signals = scoreSignals(filings, limit)
ScoreSignals ==
  /\ scoring.pc = "call"
  /\ scoring' = [scoring EXCEPT !.pc = "returned",
                                !.out = scoreSignals(scoring.filings, scoring.limit)]
  /\ UNCHANGED <<lifecycleVars, run, fetch, scan, sched>>

NextScoring == ScoreSignals

ScoringSpec == InitScoring /\ [][NextScoring]_vars

\* scoreSignals called on batches made of the scoring test's cases
InitReference ==
  /\ InitLifecycle
  /\ run = IdleRun
  /\ fetch = IdleFetch
  /\ scan = IdleScan
  /\ sched = IdleSched
  /\ \E filings \in ReferenceBatches, limit \in Limits :
       scoring = [IdleScoring EXCEPT !.pc = "call", !.filings = filings, !.limit = limit]

ReferenceSpec == InitReference /\ [][NextScoring]_vars

\* ------------------------------------------------------------ fetchForm4s: one call

\* a call starts with what the upstream will do: the number of hits its
\* search returns and the filing, if any, whose fetch never completes
InitFetch ==
  /\ InitLifecycle
  /\ run = IdleRun
  /\ scoring = IdleScoring
  /\ \E n \in 0..MaxHits, hung \in SUBSET Hits(MaxHits) :
       /\ hung \subseteq Hits(n) /\ Cardinality(hung) <= 1
       /\ fetch = [IdleFetch EXCEPT !.pc = "search", !.n = n, !.hung = hung]
  /\ scan = IdleScan
  /\ sched = IdleSched

\* the EFTS search: a network error, a non-2xx status, a non-JSON body and a
\* shape mismatch throw; no hit returns []; otherwise batchedSettle begins
Search ==
  /\ fetch.pc = "search"
  /\ \E ok \in BOOLEAN :
       fetch' = IF ~ok THEN [fetch EXCEPT !.pc = "threw"]
                ELSE IF fetch.n = 0 THEN [fetch EXCEPT !.pc = "returned"]
                ELSE [fetch EXCEPT !.pc = "loop", !.i = 1]
  /\ UNCHANGED <<lifecycleVars, run, scoring, scan, sched>>

\* items.slice(i, i + concurrency).map(fn): every task of the chunk starts
StartChunk ==
  /\ fetch.pc = "loop"
  /\ fetch.i <= fetch.n
  /\ LET chunk == fetch.i..ChunkEnd(fetch.i, FanOut, fetch.n) IN
       fetch' = [fetch EXCEPT !.pc = "await",
                   !.task = [h \in Hits(MaxHits) |-> IF h \in chunk THEN "inflight" ELSE @[h]]]
  /\ UNCHANGED <<lifecycleVars, run, scoring, scan, sched>>

\* one processFiling task settles
TaskSettles(h) ==
  /\ fetch.task[h] = "inflight"
  /\ h \notin fetch.hung
  /\ \E how \in Settlements : fetch' = [fetch EXCEPT !.task[h] = how]
  /\ UNCHANGED <<lifecycleVars, run, scoring, scan, sched>>

\* await Promise.allSettled(...) resumes once every task of the chunk has
\* settled; the fulfilled values are pushed and the loop advances
CollectChunk ==
  /\ fetch.pc = "await"
  /\ LET last == ChunkEnd(fetch.i, FanOut, fetch.n)
         chunk == fetch.i..last
     IN /\ \A h \in chunk : fetch.task[h] # "inflight"
        /\ fetch' = IF Awaited(fetch.task, chunk) = "throw"
                      THEN [fetch EXCEPT !.pc = "threw"]
                      ELSE [fetch EXCEPT !.pc = "loop", !.i = last + 1,
                              !.results = Pushed(fetch.results, fetch.task, fetch.i, last)]
  /\ UNCHANGED <<lifecycleVars, run, scoring, scan, sched>>

\* return results
ReturnResults ==
  /\ fetch.pc = "loop"
  /\ fetch.i > fetch.n
  /\ fetch' = [fetch EXCEPT !.pc = "returned"]
  /\ UNCHANGED <<lifecycleVars, run, scoring, scan, sched>>

NextFetch ==
  \/ Search
  \/ StartChunk
  \/ \E h \in Hits(MaxHits) : TaskSettles(h)
  \/ CollectChunk
  \/ ReturnResults

FetchSpec == InitFetch /\ [][NextFetch]_vars

\* the runtime keeps running the call, and every fetch except the one that
\* never completes does settle
FetchFairness ==
  /\ WF_vars(Search)
  /\ WF_vars(StartChunk)
  /\ \A h \in Hits(MaxHits) : WF_vars(TaskSettles(h))
  /\ WF_vars(CollectChunk)
  /\ WF_vars(ReturnResults)

FetchLiveSpec == InitFetch /\ [][NextFetch]_vars /\ FetchFairness

\* ------------------------------------------------------------ the scan: one run

\* a scan starts with what the upstream will answer to the 1-day query and
\* to the 3-day query
InitScan ==
  /\ InitLifecycle
  /\ run = IdleRun
  /\ scoring = IdleScoring
  /\ fetch = IdleFetch
  /\ \E d1 \in QueryOutcomes, d3 \in QueryOutcomes :
       scan = [IdleScan EXCEPT !.pc = "step1", !.day1 = d1, !.day3 = d3]
  /\ sched = IdleSched

\* Step 1: filings = await fetchForm4s(1); a failure is logged and rethrown
Step1 ==
  /\ scan.pc = "step1"
  /\ scan' = IF scan.day1.ok
               THEN [scan EXCEPT !.queries1 = @ + 1, !.filings = scan.day1.filings,
                       !.pc = IF hadPurchases(scan.day1.filings) THEN "step2" ELSE "step1b"]
               ELSE [scan EXCEPT !.queries1 = @ + 1, !.threw = @ \cup {1}, !.pc = "threw"]
  /\ UNCHANGED <<lifecycleVars, run, scoring, fetch, sched>>

\* Step 1b: filings = await fetchForm4s(3); a failure is logged and the run
\* goes on with the filings it has
Step1b ==
  /\ scan.pc = "step1b"
  /\ scan' = IF scan.day3.ok
               THEN [scan EXCEPT !.queries3 = @ + 1, !.filings = scan.day3.filings,
                       !.pc = "step2"]
               ELSE [scan EXCEPT !.queries3 = @ + 1, !.threw = @ \cup {3}, !.pc = "step2"]
  /\ UNCHANGED <<lifecycleVars, run, scoring, fetch, sched>>

\* Step 2: signals = scoreSignals(filings); no signal ends the run with []
Step2 ==
  /\ scan.pc = "step2"
  /\ LET signals == scoreSignals(scan.filings, DefaultLimit) IN
       scan' = [scan EXCEPT !.scoreCalls = @ + 1, !.scored = scan.filings,
                  !.signals = signals,
                  !.pc = IF Len(signals) = 0 THEN "returned" ELSE "step3", !.k = 1]
  /\ UNCHANGED <<lifecycleVars, run, scoring, fetch, sched>>

\* Step 3: insertSignal for one signal; a failure is logged and the loop goes on
Step3 ==
  /\ scan.pc = "step3"
  /\ scan.k <= Len(scan.signals)
  /\ \E inserted \in BOOLEAN :
       scan' = IF inserted
                 THEN [scan EXCEPT !.rows = @ + 1, !.persistedIds = Append(@, scan.rows + 1),
                         !.k = @ + 1]
                 ELSE [scan EXCEPT !.k = @ + 1]
  /\ UNCHANGED <<lifecycleVars, run, scoring, fetch, sched>>

\* after the loop: setState appends persistedIds to pendingSignalIds
Step3Done ==
  /\ scan.pc = "step3"
  /\ scan.k > Len(scan.signals)
  /\ scan' = [scan EXCEPT !.pendingSignalIds = @ \o scan.persistedIds, !.pc = "returned"]
  /\ UNCHANGED <<lifecycleVars, run, scoring, fetch, sched>>

\* onRequest, POST /scan: ok with signalCount, or status 500 when run() threw
ScanResponse ==
  /\ scan.pc \in {"returned", "threw"}
  /\ scan' = IF scan.pc = "threw"
               THEN [scan EXCEPT !.response = "500", !.pc = "responded"]
               ELSE [scan EXCEPT !.response = "ok", !.signalCount = Len(scan.signals),
                       !.pc = "responded"]
  /\ UNCHANGED <<lifecycleVars, run, scoring, fetch, sched>>

\* runPipeline after the scan: a failed scan sends the Pipeline Error message
\* and returns; no signal sends the Daily Scan Complete message and returns;
\* otherwise the pipeline goes on to the decision step
PipelineAfterScan ==
  /\ scan.pc = "responded"
  /\ scan' = [scan EXCEPT !.pc = "done",
                !.message = IF scan.response # "ok" THEN "Pipeline Error"
                            ELSE IF scan.signalCount = 0 THEN "Daily Scan Complete"
                            ELSE "none"]
  /\ UNCHANGED <<lifecycleVars, run, scoring, fetch, sched>>

NextScan ==
  \/ Step1
  \/ Step1b
  \/ Step2
  \/ Step3
  \/ Step3Done
  \/ ScanResponse
  \/ PipelineAfterScan

ScanSpec == InitScan /\ [][NextScan]_vars

\* ------------------------------------------------------------ schedules: requests

InitSched ==
  /\ InitLifecycle
  /\ run = IdleRun
  /\ scoring = IdleScoring
  /\ fetch = IdleFetch
  /\ scan = IdleScan
  /\ sched = IdleSched

\* setPipelineSchedule is called: the existing pipeline rows are listed
SetPipelineSchedule ==
  /\ sched.pc = "idle"
  /\ sched.calls < MaxScheduleCalls
  /\ sched' = [sched EXCEPT !.pc = "set", !.calls = @ + 1,
                 !.existing = ExistingToCancel(sched.table)]
  /\ UNCHANGED <<lifecycleVars, run, scoring, fetch, scan>>

\* DELETE pipeline/schedule arrives: the existing pipeline rows are listed
DeletePipelineSchedule ==
  /\ sched.pc = "idle"
  /\ sched.calls < MaxScheduleCalls
  /\ sched' = [sched EXCEPT !.pc = "delete", !.calls = @ + 1,
                 !.existing = PipelineSchedules(sched.table)]
  /\ UNCHANGED <<lifecycleVars, run, scoring, fetch, scan>>

\* await this.cancelSchedule(s.id) for the next listed row
CancelSchedule ==
  /\ sched.pc \in {"set", "delete"}
  /\ sched.existing # {}
  /\ LET s == CHOOSE r \in sched.existing : \A q \in sched.existing : r.id <= q.id IN
       sched' = [sched EXCEPT !.table = {r \in @ : r.id # s.id}, !.existing = @ \ {s}]
  /\ UNCHANGED <<lifecycleVars, run, scoring, fetch, scan>>

\* this.schedule(cron, "runPipelineFromScheduler", { label }): a new row, or
\* a throw when the cron expression is not valid
SetPipelineScheduleEnd ==
  /\ sched.pc = "set"
  /\ sched.existing = {}
  /\ \E valid \in BOOLEAN :
       sched' = IF valid
                  THEN [sched EXCEPT !.pc = "idle", !.last = "set",
                          !.table = @ \cup {CronRow(sched.nextId)}, !.nextId = @ + 1]
                  ELSE [sched EXCEPT !.pc = "idle", !.last = "set threw"]
  /\ UNCHANGED <<lifecycleVars, run, scoring, fetch, scan>>

\* the DELETE request answers { ok: true, cancelled }
DeletePipelineScheduleEnd ==
  /\ sched.pc = "delete"
  /\ sched.existing = {}
  /\ sched' = [sched EXCEPT !.pc = "idle", !.last = "cancel"]
  /\ UNCHANGED <<lifecycleVars, run, scoring, fetch, scan>>

\* decide registers an expiry timer: this.schedule(expirySeconds, "expireRecommendation", { id })
ScheduleExpiry ==
  /\ sched.pc = "idle"
  /\ Cardinality(sched.timers) < MaxTimers
  /\ sched' = [sched EXCEPT !.table = @ \cup {DelayedRow(sched.nextId)},
                 !.timers = @ \cup {sched.nextId}, !.nextId = @ + 1]
  /\ UNCHANGED <<lifecycleVars, run, scoring, fetch, scan>>

\* a delayed row comes due: the scheduler runs expireRecommendation and
\* deletes the row
ExpiryRuns ==
  /\ sched.pc = "idle"
  /\ \E s \in sched.table :
       /\ s.type = "delayed"
       /\ sched' = [sched EXCEPT !.table = @ \ {s}, !.fired = @ \cup {s.id}]
  /\ UNCHANGED <<lifecycleVars, run, scoring, fetch, scan>>

NextSched ==
  \/ SetPipelineSchedule
  \/ DeletePipelineSchedule
  \/ CancelSchedule
  \/ SetPipelineScheduleEnd
  \/ DeletePipelineScheduleEnd
  \/ ScheduleExpiry
  \/ ExpiryRuns

SchedSpec == InitSched /\ [][NextSched]_vars

\* ------------------------------------------------------------ claims

\* C1: whichever of approve, reject and expire first resolves a PENDING
\* recommendation, the status it wrote is final: no later trigger changes it.
C1_FirstResolutionIsFinal ==
  [][\A i \in RecIds : status[i] \in Resolved => status'[i] = status[i]]_vars

\* C2: the expiry callback applied to a recommendation that is already
\* APPROVED, REJECTED or EXPIRED leaves its status and resolution timestamp
\* unchanged and is treated as already resolved (no state update of the agent).
C2_ExpireOnResolvedIsNoOp ==
  [][\A i \in RecIds :
       (timerSt[i] = "armed" /\ timerSt'[i] = "fired" /\ status[i] \in Resolved)
         => /\ status'[i] = status[i]
            /\ resolvedAt'[i] = resolvedAt[i]
            /\ pendingIds' = pendingIds]_vars

\* C3: at most one brokerage order is ever submitted for a recommendation.
C3_AtMostOneOrder == \A i \in RecIds : orders[i] <= 1

C5_StaleApproveNeverApproved ==
  \A r \in Reqs :
    req[r].resp = "expired"
      => /\ ~req[r].ordered
         /\ getRecommendation(status, req[r].id) \in Resolved \ {"APPROVED"}

\* C6 as stated: no human has been notified of a recommendation for which no
\* expiry timer is registered.
C6_TimerBeforePrompt ==
  \A i \in RecIds : prompt[i] = "sent" => timerSt[i] # "none"

\* C6 amended: the record is persisted, then the approval prompt is sent, then
\* the expiry timer is scheduled; a recommendation lacks its prompt attempt or
\* its timer only while decide is at that very step for it.
C6_PersistPromptTimer ==
  \A i \in RecIds :
    /\ prompt[i] # "none" => status[i] # "NONE"
    /\ timerSt[i] # "none" => prompt[i] # "none"
    /\ (status[i] # "NONE" /\ prompt[i] = "none") => (dec.pc = "notify" /\ dec.cur = i)
    /\ (prompt[i] # "none" /\ timerSt[i] = "none") => (dec.pc = "schedule" /\ dec.cur = i)

C6_Witness ==
  \E i \in RecIds : status[i] = "PENDING" /\ prompt[i] = "sent" /\ timerSt[i] = "armed"

C9_NeverBackToPending ==
  [][\A i \in RecIds : status[i] \in Resolved => status'[i] # "PENDING"]_vars

C9_Witness ==
  /\ dec.pc = "idle"
  /\ \E i \in RecIds, j \in RecIds :
       /\ status[i] \in Resolved /\ timerSt[i] = "fired"
       /\ j > i /\ status[j] = "PENDING"
       /\ \E r \in Reqs : req[r].id = i /\ req[r].resp = "already"

C11_ResolvedOrMissingRefused ==
  [][\A r \in Reqs :
       LET id == req[r].id
           found == id \in RecIds /\ status[id] # "NONE"
       IN (/\ req[r].pc = "validate" /\ req'[r].pc # "validate"
           /\ (found => status[id] \in Resolved))
            => /\ req'[r].pc = "done"
               /\ req'[r].resp = IF found THEN "already" ELSE "not_found"
               /\ ~req'[r].ordered
               /\ UNCHANGED <<status, action, resolvedAt, orders, tradeLogs>>]_vars

C11_Witness ==
  \E r \in Reqs, q \in Reqs :
    /\ req[r].kind = "approve" /\ req[r].pc = "done" /\ req[r].resp = "already"
    /\ status[req[r].id] \in Resolved /\ orders[req[r].id] = 0
    /\ req[q].pc = "done" /\ req[q].resp = "not_found" /\ req[q].id = UnknownId

\* C12: every id in the agent's persisted pendingRecommendationIds is the id
\* of a recommendation whose status is PENDING.
C12_PendingIdsArePending ==
  \A i \in pendingIds : status[i] = "PENDING"

\* C13: no recommendation is created from a HOLD decision: every
\* recommendation a run of decide has persisted has action BUY or SELL.
C13_NoHoldRecommendation ==
  \A k \in DOMAIN run.created : run.created[k].action \in {"BUY", "SELL"}

C13_Witness ==
  /\ run.pc = "done"
  /\ \E k \in DOMAIN run.decisions : run.decisions[k].action = "HOLD"
  /\ Len(run.created) >= 1

\* C14: a run of decide creates no BUY recommendation for a ticker that is in
\* the holdings fetched for the run and no SELL recommendation for a ticker
\* that is not.
C14_BuyUnheldSellHeld ==
  \A k \in DOMAIN run.created :
    LET rec == run.created[k] IN
    /\ rec.action = "BUY" => rec.ticker \notin run.portfolioTickers
    /\ rec.action = "SELL" => rec.ticker \in run.portfolioTickers

C14_Witness ==
  /\ run.pc = "done"
  /\ \E k \in DOMAIN run.decisions :
       run.decisions[k].action = "BUY" /\ run.decisions[k].ticker \in run.portfolioTickers
  /\ \E k \in DOMAIN run.created :
       run.created[k].action = "SELL" /\ run.created[k].ticker \in run.portfolioTickers

\* C15: within one run of decide the notionals of the BUY recommendations
\* created sum to no more than the buying power fetched at the start: the
\* counter of remaining buying power never goes below zero and has been
\* reduced by at least the notional of every BUY created so far.
C15_BuysWithinBuyingPower ==
  /\ SumBuy(run.created) <= run.buyingPower
  /\ run.pc \in {"loop", "done"} =>
       /\ run.remainingBuyingPower >= 0
       /\ SumBuy(run.created) <= run.buyingPower - run.remainingBuyingPower

C15_Witness ==
  /\ run.pc = "done"
  /\ Len(run.decisions) = 2 /\ Len(run.created) = 1
  /\ \A k \in 1..2 : /\ run.decisions[k].action = "BUY"
                      /\ run.decisions[k].ticker \notin run.portfolioTickers
  /\ run.created[1].action = "BUY"
  /\ Notional(run.decisions[2], run.portfolioTickers) <= run.buyingPower
  /\ Notional(run.decisions[2], run.portfolioTickers) > run.remainingBuyingPower

\* C16: a BUY that is skipped because the remaining buying power is below its
\* notional leaves the counter as it was, creates nothing, and the loop goes
\* on with the next decision.
C16_SkippedBuyChangesNothing ==
  [][(run.pc = "loop" /\ run.idx <= Len(run.decisions)) =>
       LET d == run.decisions[run.idx]
           held == run.portfolioTickers
       IN (/\ d.action = "BUY" /\ d.ticker \notin held
           /\ run.remainingBuyingPower <
                (IF d.notional # NoNotional THEN d.notional ELSE PositionSizeUsd))
            => /\ run'.remainingBuyingPower = run.remainingBuyingPower
               /\ run'.created = run.created
               /\ run'.prompts = run.prompts /\ run'.timers = run.timers
               /\ run'.pc = "loop" /\ run'.idx = run.idx + 1]_vars

C16_Witness ==
  /\ run.pc = "done"
  /\ Len(run.decisions) = 2 /\ Len(run.created) = 1
  /\ run.decisions[1].action = "BUY" /\ run.decisions[1].ticker \notin run.portfolioTickers
  /\ Notional(run.decisions[1], run.portfolioTickers) > run.buyingPower
  /\ run.created[1] = [action |-> "BUY", ticker |-> run.decisions[2].ticker,
                       notional |-> Notional(run.decisions[2], run.portfolioTickers)]
  /\ run.remainingBuyingPower = run.buyingPower - run.created[1].notional

\* C17: when the LLM response does not parse, or any one of its decisions
\* fails schema validation, the run fails before its loop: it creates no
\* recommendation, sends no approval prompt and schedules no expiry timer.
C17_InvalidDecisionFailsRun ==
  (\/ ~run.raw.parses
   \/ \E k \in DOMAIN run.raw.items : ~SchemaAccepts(run.raw.items[k]))
    => /\ run.pc \in {"idle", "parse", "failed"}
       /\ run.created = <<>> /\ run.prompts = 0 /\ run.timers = 0

C17_Witness ==
  /\ run.pc = "failed"
  /\ Len(run.raw.items) = 2
  /\ ~SchemaAccepts(run.raw.items[2])
  /\ LET d == run.raw.items[1] IN
       /\ SchemaAccepts(d) /\ d.action = "BUY"
       /\ SchemaOutput(d).ticker \notin run.portfolioTickers
       /\ Notional(d, run.portfolioTickers) <= run.buyingPower

\* C18: the list scoreSignals returns is sorted by score, highest first, and
\* every score in it is an integer from 0 to 100.
C18_SortedScoresInRange ==
  scoring.pc = "returned" =>
    \A k \in DOMAIN scoring.out :
      /\ scoring.out[k].score \in 0..100
      /\ k + 1 \in DOMAIN scoring.out => scoring.out[k].score >= scoring.out[k + 1].score

C18_Witness ==
  /\ scoring.pc = "returned"
  /\ Len(scoring.filings) = 2 /\ Len(scoring.out) = 2
  /\ scoring.out[1].filing = scoring.filings[2]
  /\ scoring.out[2].filing = scoring.filings[1]
  /\ scoring.out[1].score > scoring.out[2].score

\* C19: no record whose transaction type is not "P" is in the output of
\* scoreSignals, and a cluster bonus in the output is always due to another
\* purchase: records of other types earn nobody a bonus.
C19_OnlyPurchasesCount ==
  \A k \in DOMAIN scoring.out :
    LET f == scoring.out[k].filing
        Near(g) == LET d == g.transactionDate - f.transactionDate
                   IN (IF d < 0 THEN 0 - d ELSE d) <= 5
    IN /\ f.transactionType = "P"
       /\ scoring.out[k].scoreBreakdown.clusterBonus > 0 =>
            \E j \in DOMAIN scoring.filings :
              LET g == scoring.filings[j] IN
              /\ g.transactionType = "P" /\ g.ticker = f.ticker
              /\ g.insiderName # f.insiderName /\ Near(g)

C19_Witness ==
  /\ scoring.pc = "returned"
  /\ \E k \in DOMAIN scoring.out, j \in DOMAIN scoring.filings :
       LET f == scoring.out[k].filing
           g == scoring.filings[j]
       IN /\ g.transactionType = "A" /\ g.ticker = f.ticker
          /\ g.insiderName # f.insiderName /\ g.transactionDate = f.transactionDate
          /\ scoring.out[k].scoreBreakdown.clusterBonus = 0

\* C20: a purchase in the output has cluster bonus 20 exactly when the batch
\* holds a purchase of the same ticker by a different insider dated at most 5
\* days from it, and 0 otherwise; the bonus is 20 however many such purchases
\* there are.
C20_ClusterBonusIffPartner ==
  \A k \in DOMAIN scoring.out :
    LET f == scoring.out[k].filing
        Partner(g) ==
          /\ g.transactionType = "P" /\ g.ticker = f.ticker
          /\ g.insiderName # f.insiderName
          /\ g.transactionDate - f.transactionDate \in (0 - 5)..5
    IN scoring.out[k].scoreBreakdown.clusterBonus =
         IF \E j \in DOMAIN scoring.filings : Partner(scoring.filings[j]) THEN 20 ELSE 0

C20_Witness ==
  /\ scoring.pc = "returned"
  /\ Len(scoring.filings) = 3 /\ Len(scoring.out) = 3
  /\ \A j \in 1..3 : scoring.filings[j].ticker = "CLUSTER"
  /\ scoring.filings[1].insiderName = "Alice Smith"
  /\ scoring.filings[1].transactionDate = utcDateString(0 - 1)
  /\ scoring.filings[2].insiderName = "Bob Jones"
  /\ scoring.filings[2].transactionDate = utcDateString(0 - 6)
  /\ scoring.filings[3].insiderName = "Bob Jones"
  /\ scoring.filings[3].transactionDate = utcDateString(0)
  /\ \A k \in 1..3 : scoring.out[k].scoreBreakdown.clusterBonus = 20

C23_RoleFactorOrder ==
  \A k \in DOMAIN scoring.out :
    LET role == scoring.out[k].filing.insiderRole
        factor == scoring.out[k].scoreBreakdown.roleFactor
    IN /\ role = <<"Chief", "Executive", "Officer", "CEO">> => factor = 40
       /\ role = <<"Director">> => factor = 25
       /\ role = <<"Vice", "President", "of", "Operations">> => factor = 15
       /\ role = <<"VP">> => factor = 15
       /\ role = <<"10%", "Owner">> => factor = 5

\* C24: for the batch made of the four reference records, in any order and
\* with the default limit, scoreSignals returns the CEO purchase with score 80
\* (factors 40/20/0/20), then the director's purchase dated today with 70
\* (25/5/20/20), then the director's purchase dated yesterday with 65
\* (25/10/20/10), and not the award.
C24_ReferenceBatchScores ==
  (/\ scoring.pc = "returned" /\ scoring.limit = DefaultLimit
   /\ Len(scoring.filings) = 4
   /\ {scoring.filings[j] : j \in 1..4} = ReferenceFilings)
    => /\ Len(scoring.out) = 3
       /\ LET Expect(k, name, score, role, value, cluster, recency) ==
                /\ scoring.out[k].filing.insiderName = name
                /\ scoring.out[k].filing.transactionType = "P"
                /\ scoring.out[k].score = score
                /\ scoring.out[k].scoreBreakdown =
                     [roleFactor |-> role, valueFactor |-> value,
                      clusterBonus |-> cluster, recencyFactor |-> recency]
          IN /\ Expect(1, "Jane Doe", 80, 40, 20, 0, 20)
             /\ Expect(2, "Bob Jones", 70, 25, 5, 20, 20)
             /\ Expect(3, "Alice Smith", 65, 25, 10, 20, 10)

C24_Witness ==
  /\ scoring.pc = "returned" /\ scoring.limit = DefaultLimit
  /\ Len(scoring.filings) = 4 /\ Len(scoring.out) = 3
  /\ scoring.filings[1].insiderName = "Jane Doe"
  /\ scoring.filings[2].insiderName = "Alice Smith"
  /\ scoring.filings[3].insiderName = "Bob Jones"
  /\ scoring.filings[4].insiderName = "Dave Black"
  /\ scoring.out[3].score = 65

\* C26: while fetchForm4s runs, never more than 6 per-filing fetch tasks are
\* in flight at once, however many hits the search returned.
C26_AtMostFanOutInFlight ==
  Cardinality({h \in Hits(MaxHits) : fetch.task[h] = "inflight"}) <= FanOut

C26_Witness ==
  /\ fetch.n > FanOut
  /\ Cardinality({h \in Hits(MaxHits) : fetch.task[h] = "inflight"}) = FanOut
  /\ \E h \in Hits(fetch.n) : fetch.task[h] = "idle"

\* C27: no failure of per-filing tasks aborts the batch: fetchForm4s throws
\* only when its search fails, before any task has started, and what it
\* returns is exactly the records of the tasks that succeeded, each once, in
\* search-hit order; a failed task contributes nothing.
C27_FailedTasksContributeNothing ==
  /\ fetch.pc = "threw" => \A h \in Hits(MaxHits) : fetch.task[h] = "idle"
  /\ fetch.pc = "returned" =>
       /\ \A p \in DOMAIN fetch.results :
            LET r == fetch.results[p] IN
            /\ r.hit \in Hits(fetch.n) /\ fetch.task[r.hit] = "records"
            /\ r.tx \in DOMAIN RecordsOf(r.hit) /\ r = RecordsOf(r.hit)[r.tx]
            /\ p + 1 \in DOMAIN fetch.results =>
                 LET q == fetch.results[p + 1] IN
                 r.hit < q.hit \/ (r.hit = q.hit /\ r.tx < q.tx)
       /\ \A h \in Hits(fetch.n) :
            fetch.task[h] = "records" =>
              \A k \in DOMAIN RecordsOf(h) :
                \E p \in DOMAIN fetch.results : fetch.results[p] = RecordsOf(h)[k]

C27_Witness ==
  /\ fetch.pc = "returned"
  /\ fetch.n > FanOut
  /\ fetch.task[1] = "records" /\ fetch.task[2] = "rejected" /\ fetch.task[3] = "empty"
  /\ fetch.task[fetch.n] = "records"
  /\ fetch.results[1].hit = 1
  /\ fetch.results[Len(fetch.results)].hit = fetch.n

\* C30: when one per-filing fetch never completes, every other filing of the
\* search is still eventually fetched and its chunk's values collected.
C30_HungFetchBlocksNobody ==
  \A h \in Hits(MaxHits) :
    (fetch.pc = "loop" /\ fetch.i = 1 /\ h \in Hits(fetch.n) \ fetch.hung)
      ~> (fetch.task[h] \in Settlements /\ fetch.i > h)

\* C28: in a scan run, a failure of the 1-day query or of the 3-day fallback
\* query aborts the run: scoring is never reached with the result of an
\* earlier query, and the pipeline ends by sending its error message.
C28_QueryFailureAbortsScan ==
  scan.threw # {} =>
    /\ scan.scoreCalls = 0
    /\ scan.pc = "done" => scan.message = "Pipeline Error"

\* C29: once a scan run is past its queries, the 3-day query was issued
\* exactly when the 1-day query returned a batch with no purchase record,
\* never more than once, and the batch that is scored is the 3-day result
\* when that query succeeded and the 1-day result when it was not issued.
C29_FallbackIffNoPurchase ==
  LET noPurchase1 ==
        /\ scan.queries1 = 1 /\ scan.day1.ok
        /\ Cardinality({k \in DOMAIN scan.day1.filings :
                          scan.day1.filings[k].transactionType = "P"}) = 0
  IN /\ scan.queries3 <= 1
     /\ scan.pc \in {"step1", "step1b"} => scan.queries3 = 0
     /\ scan.pc \in {"step2", "step3", "returned", "threw", "responded", "done"} =>
          (scan.queries3 = 1 <=> noPurchase1)
     /\ scan.scoreCalls = 1 /\ scan.queries3 = 1 /\ scan.day3.ok =>
          scan.scored = scan.day3.filings
     /\ scan.scoreCalls = 1 /\ scan.queries3 = 0 => scan.scored = scan.day1.filings

C29_Witness ==
  /\ scan.pc = "done"
  /\ scan.day1.ok /\ Len(scan.day1.filings) > 0
  /\ scan.queries3 = 1 /\ scan.day3.ok
  /\ scan.scored = scan.day3.filings /\ scan.scored # scan.day1.filings
  /\ Len(scan.signals) > 0

\* C31: every decision that extractDecisions returns has a ticker that is
\* non-empty and upper-case, whatever ticker string the LLM wrote, a string
\* of blanks included.
C31_TickerNonEmptyUpperCase ==
  run.pc \in {"loop", "done"} =>
    \A k \in DOMAIN run.decisions :
      LET ticker == run.decisions[k].ticker IN
      /\ Len(ticker) >= 1
      /\ \A j \in DOMAIN ticker : ticker[j] # "a"

\* C32: when a run of decide is over, every decision of the batch has had its
\* turn; a decision whose insertRecommendation failed has no approval prompt,
\* no expiry timer and no pending id, and every decision whose insert
\* succeeded has all three, whichever of its siblings failed; a decision is
\* passed over without an insert only by one of the loop's own guards.
C32_InsertFailureIsolated ==
  run.pc = "done" =>
    /\ Len(run.outcome) = Len(run.decisions)
    /\ \A k \in DOMAIN run.outcome :
         LET d == run.decisions[k]
             held == run.portfolioTickers
         IN
         /\ run.outcome[k] = "insertFailed" =>
              k \notin run.prompted \cup run.scheduled \cup run.newPendingIds
         /\ run.outcome[k] = "created" =>
              k \in run.prompted \cap run.scheduled \cap run.newPendingIds
         /\ run.outcome[k] = "skipped" <=>
              \/ d.action = "HOLD"
              \/ d.action = "BUY" /\ d.ticker \in held
              \/ d.action = "SELL" /\ d.ticker \notin held
         /\ run.outcome[k] = "unfunded" => d.action = "BUY"
    /\ Len(run.created) = Cardinality({k \in DOMAIN run.outcome : run.outcome[k] = "created"})
    /\ run.prompts = Len(run.created) /\ run.timers = Len(run.created)

C32_Witness ==
  /\ run.pc = "done"
  /\ run.outcome = <<"insertFailed", "created">>
  /\ run.prompted = {2} /\ run.scheduled = {2} /\ run.newPendingIds = {2}
  /\ Len(run.created) = 1

\* C33: whatever setPipelineSchedule calls and pipeline-schedule
\* cancellations the DecisionAgent has served, its schedule table holds at
\* most one recurring pipeline row: exactly one when the last request served
\* was a setPipelineSchedule that returned, none when it was a cancellation;
\* and every expireRecommendation timer that was registered and has not run
\* is still in the table.
C33_OnePipelineSchedule ==
  LET active == {s \in sched.table : s.callback = "runPipelineFromScheduler"} IN
  /\ Cardinality(active) <= 1
  /\ sched.pc = "idle" /\ sched.last = "set" => Cardinality(active) = 1
  /\ sched.pc = "idle" /\ sched.last = "cancel" => Cardinality(active) = 0
  /\ \A id \in sched.timers \ sched.fired :
       [id |-> id, type |-> "delayed", callback |-> "expireRecommendation"] \in sched.table

C33_Witness ==
  /\ sched.pc = "idle" /\ sched.last = "set"
  /\ sched.calls >= 3
  /\ \E s \in sched.table : s.type = "cron" /\ s.id >= 4
  /\ \E id \in sched.timers \ sched.fired : id = 1

\* C34: for every stored recommendation, resolved_at is NULL exactly when
\* the status is PENDING.
C34_ResolvedAtUnsetIffPending ==
  \A i \in RecIds :
    status[i] # "NONE" => (resolvedAt[i] = NoTime <=> status[i] = "PENDING")

C34_Witness ==
  \E i, j \in RecIds :
    /\ status[i] = "PENDING" /\ resolvedAt[i] = NoTime /\ age[i] > 0
    /\ status[j] \in {"APPROVED", "REJECTED", "EXPIRED"} /\ resolvedAt[j] # NoTime

\* C35: a recommendation that is APPROVED has had an order submitted for it,
\* and keeps having had one whatever is written to it later: the status
\* becomes APPROVED only by an approve request whose order submission has
\* returned, and the orders submitted for a recommendation are never undone.
C35_ApprovedHasOrder ==
  [][\A i \in RecIds :
       /\ status'[i] = "APPROVED" => orders'[i] >= 1
       /\ orders'[i] >= orders[i]
       /\ (status[i] # "APPROVED" /\ status'[i] = "APPROVED")
            => \E r \in Reqs : /\ req[r].kind = "approve" /\ req[r].id = i
                               /\ req[r].pc = "mark" /\ req[r].ordered]_vars

C35_Witness ==
  \E i \in RecIds :
    /\ status[i] = "APPROVED" /\ orders[i] = 1
    /\ tradeLogs[i] = 0 /\ timerSt[i] = "armed"

\* C36: the step at which an approve request ends without an order (price
\* unavailable, notional below one share, no open position for a SELL, or
\* the brokerage call failing) ends the request and writes nothing: status,
\* resolution timestamp, orders and trade-log rows stay as they were, so a
\* recommendation that was PENDING is PENDING afterwards.
C36_NoOrderLeavesRecordAlone ==
  [][\A r \in Reqs :
       (/\ req[r].pc = "order"
        /\ req'[r].resp \in {"price_unavailable", "too_small", "no_position", "order_failed"})
         => /\ req'[r].pc = "done" /\ ~req'[r].ordered
            /\ status' = status /\ resolvedAt' = resolvedAt
            /\ tradeLogs' = tradeLogs /\ orders' = orders
            /\ (status[req[r].id] = "PENDING" =>
                  /\ status'[req[r].id] = "PENDING"
                  /\ resolvedAt'[req[r].id] = NoTime)]_vars

C36_Witness ==
  \E r, q \in Reqs :
    /\ r # q /\ req[r].id = req[q].id
    /\ req[r].pc = "done" /\ req[r].resp \in {"price_unavailable", "too_small", "no_position"}
    /\ req[q].resp = "executed" /\ req[q].ordered
    /\ status[req[r].id] = "APPROVED" /\ orders[req[r].id] = 1

\* C37: for every signal scoreSignals returns, the four factors stay within
\* their maxima 40, 20, 20 and 20, their sum is at most 100, the score is
\* that sum, and the breakdown does not report a cap.
C37_UncappedSumAtMost100 ==
  \A k \in DOMAIN scoring.out :
    LET b == scoring.out[k].scoreBreakdown
        raw == b.roleFactor + b.valueFactor + b.clusterBonus + b.recencyFactor
    IN /\ b.roleFactor <= 40 /\ b.valueFactor <= 20
       /\ b.clusterBonus <= 20 /\ b.recencyFactor <= 20
       /\ raw <= 100
       /\ scoring.out[k].score = raw
       /\ ~scoring.out[k].capped

C37_Witness ==
  /\ scoring.pc = "returned"
  /\ \E k \in DOMAIN scoring.out :
       /\ scoring.out[k].scoreBreakdown =
            [roleFactor |-> 40, valueFactor |-> 20, clusterBonus |-> 20, recencyFactor |-> 20]
       /\ scoring.out[k].score = 100
       /\ ~scoring.out[k].capped

====
